---- MODULE Spec2Model ----
(***************************************************************************)
(* Cross-lingual QA system: the offline pipeline (create_embeddings.py,    *)
(* build_index.py) and the query service (app.py).                         *)
(*                                                                         *)
(* Representation.                                                         *)
(*   - A text is a sequence of one-character strings, so that strip() and  *)
(*     readlines() can be computed character by character.                 *)
(*   - A numpy array is [shape, data] with data in row-major order.        *)
(*   - Vector components are counted in units of 1/2 and squared L2        *)
(*     distances therefore in units of 1/4, so that "%.4f" has fractional  *)
(*     digits to print.                                                    *)
(*   - A file on disk is the flat sequence that was written to it.         *)
(***************************************************************************)
EXTENDS Integers, Sequences, FiniteSets, TLC

\* ------------------------------------------------------------ bounds
MaxDocs == 3
MaxK == 4

\* ------------------------------------------------------------ inputs
Letters == <<"a", "b">>
Dim == Len(Letters)
Whitespace == {" ", "\n"}

\* The (source, translation) pairs the dataset may hold.
Pairs ==
  { [de |-> <<"a">>,            en |-> "x"],
    [de |-> <<"b">>,            en |-> "x"],
    [de |-> <<" ", "a">>,       en |-> "z"],
    [de |-> <<"a", "\n", "b">>, en |-> "w"] }

RECURSIVE SeqsOfLen(_, _)
SeqsOfLen(S, n) ==
  IF n = 0 THEN {<<>>}
  ELSE {<<x>> \o s : x \in S, s \in SeqsOfLen(S, n - 1)}

DocLists == UNION {SeqsOfLen(Pairs, n) : n \in 1..MaxDocs}

QueryTexts == {<<>>, <<" ">>, <<"a">>, <<"b">>, <<"a", "b">>}
KValues == (-1)..MaxK

\* ------------------------------------------------------------ helpers
SetMin(S) == CHOOSE x \in S : \A y \in S : x <= y
SetMax(S) == CHOOSE x \in S : \A y \in S : x >= y
MinOf(a, b) == IF a <= b THEN a ELSE b

RECURSIVE Flatten(_)
Flatten(rows) ==
  IF rows = <<>> THEN <<>> ELSE Head(rows) \o Flatten(Tail(rows))

RECURSIVE SumTo(_, _)
SumTo(f, n) == IF n = 0 THEN 0 ELSE f[n] + SumTo(f, n - 1)

\* ------------------------------------------------------------ encoder
Count(c, s) == Cardinality({i \in 1..Len(s) : s[i] = c})

\* SentenceTransformer.encode on one text: a deterministic map from a text to
\* a vector of fixed dimension Dim.
Encode(text) == [j \in 1..Dim |-> Count(Letters[j], text)]

\* model.encode(list of texts): an array of shape (len(texts), Dim).
model_encode(texts) ==
  [shape |-> <<Len(texts), Dim>>,
   data  |-> Flatten([i \in 1..Len(texts) |-> Encode(texts[i])])]

\* ------------------------------------------------------------ numpy, text files
np_save(arr) == <<Len(arr.shape)>> \o arr.shape \o arr.data

np_load(file) ==
  LET nd == file[1]
  IN  [shape |-> SubSeq(file, 2, 1 + nd),
       data  |-> SubSeq(file, 2 + nd, Len(file))]

\* for sentence in german_sentences: f.write(sentence + "\n")
write_sentences(sentences) ==
  Flatten([i \in 1..Len(sentences) |-> sentences[i] \o <<"\n">>])

\* f.readlines(): every line keeps its terminating newline.
RECURSIVE readlines(_)
readlines(f) ==
  IF f = <<>> THEN <<>>
  ELSE LET nls == {i \in 1..Len(f) : f[i] = "\n"}
       IN  IF nls = {} THEN <<f>>
           ELSE <<SubSeq(f, 1, SetMin(nls))>>
                  \o readlines(SubSeq(f, SetMin(nls) + 1, Len(f)))

\* str.strip(): drops leading and trailing whitespace.
strip(s) ==
  LET keep == {i \in 1..Len(s) : s[i] \notin Whitespace}
  IN  IF keep = {} THEN <<>> ELSE SubSeq(s, SetMin(keep), SetMax(keep))

read_sentences(f) ==
  LET lines == readlines(f) IN [i \in 1..Len(lines) |-> strip(lines[i])]

\* ------------------------------------------------------------ faiss
\* The value faiss leaves in D for a neighbour it did not find: the largest
\* float32 (3.4028235e38), here the largest number of the model's arithmetic.
FLT_MAX == 2147483647

\* faiss.IndexFlatL2(dimension)
IndexFlatL2(dimension) == [d |-> dimension, ntotal |-> 0, xb |-> <<>>]

\* index.add(x): appends the rows of x to the stored vectors.
index_add(index, x) ==
  [d      |-> index.d,
   ntotal |-> index.ntotal + x.shape[1],
   xb     |-> index.xb \o x.data]

\* dimension = embeddings.shape[1]; index = IndexFlatL2(dimension); index.add(embeddings)
create_faiss_index(embeddings) ==
  index_add(IndexFlatL2(embeddings.shape[2]), embeddings)

\* faiss.write_index: header (d, ntotal, size of the code array), then the codes.
write_index(index) == <<index.d, index.ntotal, Len(index.xb)>> \o index.xb

\* A reader that takes the size field for the first code.
read_index_off_by_one(file) ==
  [d      |-> file[1],
   ntotal |-> file[2],
   xb     |-> SubSeq(file, 3, 2 + file[3])]

\* faiss.read_index
read_index(file) ==
  [d      |-> file[1],
   ntotal |-> file[2],
   xb     |-> SubSeq(file, 4, 3 + file[3])]

\* The i-th stored vector (i counted from 1; its id is i - 1).
Row(index, i) == SubSeq(index.xb, (i - 1) * index.d + 1, i * index.d)

\* Squared Euclidean distance.
L2Sqr(x, y) == SumTo([j \in 1..Len(x) |-> (x[j] - y[j]) * (x[j] - y[j])], Len(x))

\* A heap that lets a later vector at the same distance displace an earlier one.
HeapBeforeLastWins(d1, i1, d2, i2) == d1 < d2 \/ (d1 = d2 /\ i1 > i2)

\* The order of the result heap: by distance, ties by id.
HeapBefore(d1, i1, d2, i2) == d1 < d2 \/ (d1 = d2 /\ i1 < i2)

\* The k nearest stored vectors of the single query row of x, ascending; the
\* places past ntotal are filled with id -1 and distance FLT_MAX.
knn_L2sqr(index, x, k) ==
  LET q    == SubSeq(x.data, 1, index.d)
      N    == index.ntotal
      dist == [i \in 1..N |-> L2Sqr(q, Row(index, i))]
      rank == [i \in 1..N |->
                 Cardinality({j \in 1..N : HeapBefore(dist[j], j, dist[i], i)})]
      nth  == [p \in 1..N |-> CHOOSE i \in 1..N : rank[i] = p - 1]
  IN  [p \in 1..k |->
         IF p <= N THEN [id |-> nth[p] - 1, dist |-> dist[nth[p]]]
                   ELSE [id |-> -1, dist |-> FLT_MAX]]

\* index.search(x, k): the outcomes of the call.  The wrapper asserts that the
\* query has the dimension of the index; a negative k cannot size the result
\* arrays; k = 0 is rejected by the releases that assert k > 0 and answered with
\* empty arrays by the others.
Raised(e) == [raised |-> TRUE, exc |-> e, hits |-> <<>>]
Returned(h) == [raised |-> FALSE, exc |-> "", hits |-> h]

index_search(index, x, k) ==
  IF x.shape[2] # index.d THEN {Raised("AssertionError")}
  ELSE IF k < 0 THEN {Raised("ValueError")}
  ELSE IF k = 0 THEN {Raised("AssertionError"), Returned(<<>>)}
  ELSE {Returned(knn_L2sqr(index, x, k))}

\* ------------------------------------------------------------ python
\* list[idx]: a negative idx counts from the end; out of range raises IndexError.
InRange(list, idx) == -Len(list) <= idx /\ idx < Len(list)
PyGet(list, idx) == IF idx >= 0 THEN list[idx + 1] ELSE list[Len(list) + idx + 1]

Digits == <<"0", "1", "2", "3", "4", "5", "6", "7", "8", "9">>
RECURSIVE IntToStr(_)
IntToStr(n) ==
  IF n < 10 THEN Digits[n + 1]
  ELSE IntToStr(n \div 10) \o Digits[(n % 10) + 1]

Quarters == <<"0000", "2500", "5000", "7500">>

\* f"{distance:.4f}" of a distance counted in quarters.
Format4(dist) ==
  IF dist = FLT_MAX
  THEN "340282346638528859811704183484516925440.0000"
  ELSE IntToStr(dist \div 4) \o "." \o Quarters[(dist % 4) + 1]

\* ------------------------------------------------------------ build_index.search
\* search(query_text, model, index, sentences, top_k = k): the outcomes of the call.
\* encFails says whether the encoder raises on this call.
search(query_text, index, sentences, k, encFails) ==
  IF encFails
  THEN {[status |-> "raised", exc |-> "EncodingError", results |-> <<>>,
         hits |-> <<>>, qvec |-> <<>>, encoded |-> TRUE, searched |-> FALSE]}
  ELSE
    LET query_embedding == model_encode(<<query_text>>)
    IN  { IF o.raised
          THEN [status |-> "raised", exc |-> o.exc, results |-> <<>>,
                hits |-> <<>>, qvec |-> query_embedding.data,
                encoded |-> TRUE, searched |-> TRUE]
          ELSE IF \E i \in 1..Len(o.hits) : ~InRange(sentences, o.hits[i].id)
          THEN [status |-> "raised", exc |-> "IndexError", results |-> <<>>,
                hits |-> o.hits, qvec |-> query_embedding.data,
                encoded |-> TRUE, searched |-> TRUE]
          ELSE [status |-> "ok", exc |-> "",
                results |-> [i \in 1..Len(o.hits) |->
                               [sentence |-> PyGet(sentences, o.hits[i].id),
                                score    |-> o.hits[i].dist]],
                hits |-> o.hits, qvec |-> query_embedding.data,
                encoded |-> TRUE, searched |-> TRUE]
          : o \in index_search(index, query_embedding, k) }

\* ------------------------------------------------------------ state
VARIABLES
  docs,               \* dataset.select(range(num_documents)): the (de, en) pairs
  exists,             \* the files of knowledge_base/ that exist
  embeddingsFile,     \* knowledge_base/embeddings.npy
  sentencesFile,      \* knowledge_base/sentences.txt
  indexFile,          \* knowledge_base/faiss.index
  buildState,         \* build_index.main: "idle", "no_kb" or "built"
  kb_embeddings,      \* build_index.main: embeddings
  kb_sentences,       \* build_index.main: sentences
  faiss_index,        \* build_index.main: faiss_index
  search_results,     \* build_index.main: the outcome of the test search
  searchOut,          \* the last call of build_index.search and its outcome
  appLoaded,          \* app.py has run its module-level loading
  FAISS_INDEX,        \* app.py globals
  SENTENCES,
  ENGLISH_SENTENCES,
  req                 \* the search requests in flight

vars == <<docs, exists, embeddingsFile, sentencesFile, indexFile, buildState,
          kb_embeddings, kb_sentences, faiss_index, search_results, searchOut,
          appLoaded, FAISS_INDEX, SENTENCES, ENGLISH_SENTENCES, req>>

diskVars == <<exists, embeddingsFile, sentencesFile, indexFile>>
buildVars == <<buildState, kb_embeddings, kb_sentences, faiss_index, search_results>>
appVars == <<appLoaded, FAISS_INDEX, SENTENCES, ENGLISH_SENTENCES>>

Reqs == {1, 2}

\* search_endpoint: top_k = 5
top_k == 5
\* build_index.main: search(test_query, model, faiss_index, sentences, top_k=3)
test_top_k == 3
test_query ==
  <<"W","h","e","r","e"," ","i","s"," ","t","h","e"," ","n","e","a","r","e","s","t",
    " ","t","r","a","i","n"," ","s","t","a","t","i","o","n","?">>

german_sentences(d) == [i \in 1..Len(d) |-> d[i].de]
english_sentences(d) == [i \in 1..Len(d) |-> d[i].en]

\* create_embeddings(model, documents)
create_embeddings(documents) == model_encode(documents)

NoArray == [shape |-> <<0, 0>>, data |-> <<>>]
NoIndex == IndexFlatL2(0)
NoCall == [called |-> FALSE, query |-> <<>>, k |-> 0, status |-> "", exc |-> "",
           results |-> <<>>, hits |-> <<>>, qvec |-> <<>>,
           encoded |-> FALSE, searched |-> FALSE]
Call(q, k, o) ==
  [called |-> TRUE, query |-> q, k |-> k, status |-> o.status, exc |-> o.exc,
   results |-> o.results, hits |-> o.hits, qvec |-> o.qvec,
   encoded |-> o.encoded, searched |-> o.searched]
Idle == [pc |-> "idle", query |-> <<>>, emb |-> NoArray, hits |-> <<>>,
         results |-> <<>>, exc |-> "", encoded |-> FALSE, searched |-> FALSE]

Init ==
  /\ docs \in DocLists
  /\ exists = {}
  /\ embeddingsFile = <<>>
  /\ sentencesFile = <<>>
  /\ indexFile = <<>>
  /\ buildState = "idle"
  /\ kb_embeddings = NoArray
  /\ kb_sentences = <<>>
  /\ faiss_index = NoIndex
  /\ search_results = NoCall
  /\ searchOut = NoCall
  /\ appLoaded = FALSE
  /\ FAISS_INDEX = NoIndex
  /\ SENTENCES = <<>>
  /\ ENGLISH_SENTENCES = <<>>
  /\ req = [r \in Reqs |-> Idle]

\* ------------------------------------------------------------ create_embeddings.py
\* main(): encode the German sentences, save the embeddings and the sentences.
CreateEmbeddingsMain ==
  LET german_embeddings == create_embeddings(german_sentences(docs))
  IN  /\ embeddingsFile' = np_save(german_embeddings)
      /\ sentencesFile' = write_sentences(german_sentences(docs))
      /\ exists' = exists \cup {"embeddings.npy", "sentences.txt"}
      /\ UNCHANGED <<docs, indexFile, buildVars, searchOut, appVars, req>>

\* ------------------------------------------------------------ build_index.py
\* load_knowledge_base(): (None, None) when a file is missing, else the loaded
\* embeddings and the stripped lines of sentences.txt.
load_knowledge_base(ex, embFile, sentFile) ==
  IF "embeddings.npy" \notin ex \/ "sentences.txt" \notin ex
  THEN [found |-> FALSE, embeddings |-> NoArray, sentences |-> <<>>]
  ELSE [found |-> TRUE, embeddings |-> np_load(embFile),
        sentences |-> read_sentences(sentFile)]

\* main(): load the knowledge base, build and save the index, run the test search.
BuildIndexMain ==
  LET kb == load_knowledge_base(exists, embeddingsFile, sentencesFile)
  IN  IF ~kb.found
      THEN /\ buildState' = "no_kb"
           /\ UNCHANGED <<docs, diskVars, kb_embeddings, kb_sentences, faiss_index,
                          search_results, searchOut, appVars, req>>
      ELSE LET built == create_faiss_index(kb.embeddings)
           IN  /\ buildState' = "built"
               /\ kb_embeddings' = kb.embeddings
               /\ kb_sentences' = kb.sentences
               /\ faiss_index' = built
               /\ indexFile' = write_index(built)
               /\ exists' = exists \cup {"faiss.index"}
               /\ \E o \in search(test_query, built, kb.sentences, test_top_k, FALSE) :
                    search_results' = Call(test_query, test_top_k, o)
               /\ UNCHANGED <<docs, embeddingsFile, sentencesFile, searchOut,
                              appVars, req>>

\* A call of search(query_text, model, faiss_index, sentences, top_k = k) by the
\* single-threaded script: one call at a time.
SearchCall(q, k, encFails) ==
  /\ buildState = "built"
  /\ ~searchOut.called
  /\ \E o \in search(q, faiss_index, kb_sentences, k, encFails) :
       searchOut' = Call(q, k, o)
  /\ UNCHANGED <<docs, diskVars, buildVars, appVars, req>>

\* The caller is done with the returned list (or the exception).
SearchReturn ==
  /\ searchOut.called
  /\ searchOut' = NoCall
  /\ UNCHANGED <<docs, diskVars, buildVars, appVars, req>>

\* ------------------------------------------------------------ app.py, loading
\* The module-level loading of app.py (read_index raises without the file).
AppLoad ==
  /\ "faiss.index" \in exists
  /\ appLoaded' = TRUE
  /\ FAISS_INDEX' = read_index(indexFile)
  /\ SENTENCES' = german_sentences(docs)
  /\ ENGLISH_SENTENCES' = english_sentences(docs)
  /\ UNCHANGED <<docs, diskVars, buildVars, searchOut, req>>

Next ==
  \/ CreateEmbeddingsMain
  \/ BuildIndexMain
  \/ \E q \in QueryTexts, k \in KValues, f \in BOOLEAN : SearchCall(q, k, f)
  \/ SearchReturn
  \/ AppLoad

Spec == Init /\ [][Next]_vars

\* ------------------------------------------------------------ app.py, search_endpoint
\* The handler runs in a thread of the server, one thread per request; its steps
\* are the points at which another request may run.

\* query_text = data.get('query', ''); if not query_text: return jsonify([])
ReqReceive(r, q) ==
  /\ appLoaded
  /\ req[r].pc = "idle"
  /\ req' = [req EXCEPT ![r] =
       IF q = <<>>
       THEN [Idle EXCEPT !.pc = "done", !.query = q]
       ELSE [Idle EXCEPT !.pc = "encode", !.query = q]]
  /\ UNCHANGED <<docs, diskVars, buildVars, searchOut, appVars>>

\* query_embedding = MODEL.encode([query_text]); the encoder may raise.
ReqEncode(r, encFails) ==
  /\ req[r].pc = "encode"
  /\ req' = [req EXCEPT ![r] =
       IF encFails
       THEN [@ EXCEPT !.pc = "failed", !.exc = "EncodingError", !.encoded = TRUE]
       ELSE [@ EXCEPT !.pc = "search", !.emb = model_encode(<<req[r].query>>),
                      !.encoded = TRUE]]
  /\ UNCHANGED <<docs, diskVars, buildVars, searchOut, appVars>>

\* distances, indices = FAISS_INDEX.search(query_embedding, top_k)
ReqIndexSearch(r) ==
  /\ req[r].pc = "search"
  /\ \E o \in index_search(FAISS_INDEX, req[r].emb, top_k) :
       req' = [req EXCEPT ![r] =
         IF o.raised
         THEN [@ EXCEPT !.pc = "failed", !.exc = o.exc, !.searched = TRUE]
         ELSE [@ EXCEPT !.pc = "assemble", !.hits = o.hits, !.searched = TRUE]]
  /\ UNCHANGED <<docs, diskVars, buildVars, searchOut, appVars>>

\* The loop over indices[0]: one result per returned index, in order.
assemble_results(hits, S, E) ==
  [i \in 1..Len(hits) |->
     [sentence    |-> PyGet(S, hits[i].id),
      translation |-> PyGet(E, hits[i].id),
      score       |-> Format4(hits[i].dist)]]

\* A handler that takes the sentence out of the list it serves from.
ReqAssembleMut(r) ==
  /\ req[r].pc = "assemble"
  /\ Len(SENTENCES) > 1
  /\ req' = [req EXCEPT ![r] =
       [@ EXCEPT !.pc = "done",
                 !.results = assemble_results(req[r].hits, SENTENCES, ENGLISH_SENTENCES)]]
  /\ SENTENCES' = Tail(SENTENCES)
  /\ UNCHANGED <<docs, diskVars, buildVars, searchOut, appLoaded, FAISS_INDEX,
                 ENGLISH_SENTENCES>>

\* The loop that builds results, and return jsonify(results).
ReqAssemble(r) ==
  /\ req[r].pc = "assemble"
  /\ LET hits == req[r].hits
     IN  req' = [req EXCEPT ![r] =
           IF \E i \in 1..Len(hits) :
                ~InRange(SENTENCES, hits[i].id) \/ ~InRange(ENGLISH_SENTENCES, hits[i].id)
           THEN [@ EXCEPT !.pc = "failed", !.exc = "IndexError"]
           ELSE [@ EXCEPT !.pc = "done",
                          !.results = assemble_results(hits, SENTENCES, ENGLISH_SENTENCES)]]
  /\ UNCHANGED <<docs, diskVars, buildVars, searchOut, appVars>>

\* The response (the list, or the error) has been sent; the thread is free.
ReqReturn(r) ==
  /\ req[r].pc \in {"done", "failed"}
  /\ req' = [req EXCEPT ![r] = Idle]
  /\ UNCHANGED <<docs, diskVars, buildVars, searchOut, appVars>>

\* The state in which the service starts to serve: the pipeline has run over the
\* dataset (create_embeddings.main, build_index.main) and app.py has loaded.
ServeInit ==
  /\ docs \in DocLists
  /\ exists = {"embeddings.npy", "sentences.txt", "faiss.index"}
  /\ embeddingsFile = np_save(create_embeddings(german_sentences(docs)))
  /\ sentencesFile = write_sentences(german_sentences(docs))
  /\ LET kb == load_knowledge_base(exists, embeddingsFile, sentencesFile)
         built == create_faiss_index(kb.embeddings)
     IN  /\ buildState = "built"
         /\ kb_embeddings = kb.embeddings
         /\ kb_sentences = kb.sentences
         /\ faiss_index = built
         /\ indexFile = write_index(built)
         /\ search_results \in
              {Call(test_query, test_top_k, o) :
                 o \in search(test_query, built, kb.sentences, test_top_k, FALSE)}
  /\ searchOut = NoCall
  /\ appLoaded = TRUE
  /\ FAISS_INDEX = read_index(indexFile)
  /\ SENTENCES = german_sentences(docs)
  /\ ENGLISH_SENTENCES = english_sentences(docs)
  /\ req = [r \in Reqs |-> Idle]

ServeNext ==
  \/ \E r \in Reqs, q \in QueryTexts : ReqReceive(r, q)
  \/ \E r \in Reqs, f \in BOOLEAN : ReqEncode(r, f)
  \/ \E r \in Reqs : ReqIndexSearch(r)
  \/ \E r \in Reqs : ReqAssemble(r)
  \/ \E r \in Reqs : ReqReturn(r)

ServeSpec == ServeInit /\ [][ServeNext]_vars

\* ============================================================ claims
Blank(q) == \A i \in 1..Len(q) : q[i] \in Whitespace
QueryVectors == [1..Dim -> 0..1]
AsQuery(v) == [shape |-> <<1, Dim>>, data |-> v]

\* C1: a request whose query text is empty or only whitespace returns the empty
\* list, and neither the encoder nor the index is invoked in that request.
C1_BlankQueryShortCircuits ==
  \A r \in Reqs :
    (req[r].pc # "idle" /\ Blank(req[r].query)) =>
      /\ ~req[r].encoded
      /\ ~req[r].searched
      /\ req[r].pc # "failed"
      /\ req[r].pc = "done" => req[r].results = <<>>

\* C2: over N > 0 stored vectors, a search with k > 0 that returns has exactly
\* min(k, N) entries, each the hit of a stored record.
C2_CardinalityMinKN ==
  (searchOut.called /\ searchOut.status = "ok" /\ searchOut.k > 0) =>
    /\ Len(searchOut.results) = MinOf(searchOut.k, faiss_index.ntotal)
    /\ \A i \in 1..Len(searchOut.hits) :
         searchOut.hits[i].id \in 0..(faiss_index.ntotal - 1)

\* C3: the result list of a request that returns is the index's hit list mapped
\* entry by entry: the i-th result carries the source sentence and the translation
\* of the record whose id is the i-th returned id, and the i-th distance printed
\* with four decimals.
C3_ResultsFollowHits ==
  \A r \in Reqs :
    (req[r].pc = "done" /\ req[r].query # <<>>) =>
      /\ Len(req[r].results) = Len(req[r].hits)
      /\ \A i \in 1..Len(req[r].hits) :
           /\ req[r].hits[i].id \in 0..(Len(docs) - 1)
           /\ req[r].results[i].sentence = docs[req[r].hits[i].id + 1].de
           /\ req[r].results[i].translation = docs[req[r].hits[i].id + 1].en
           /\ req[r].results[i].score = Format4(req[r].hits[i].dist)

\* C4 (as claimed): a search with k = 1 for the vector of row i returns the one
\* hit (id i, distance 0), for every row i, duplicate rows included.
C4_SelfSimilarityEveryRow ==
  (searchOut.called /\ searchOut.status = "ok" /\ searchOut.k = 1) =>
    \A i \in 1..faiss_index.ntotal :
      Row(faiss_index, i) = searchOut.qvec =>
        searchOut.hits = <<[id |-> i - 1, dist |-> 0]>>

\* The first stored row equal to v (rows counted from 1).
FirstEqualRow(index, v) ==
  SetMin({j \in 1..index.ntotal : Row(index, j) = v})

\* C4 (amended): a search with k = 1 for the vector of row i returns the one hit
\* (id j, distance 0) where j is the smallest id whose row equals row i.
C4_SelfSimilarityFirstEqualRow ==
  (searchOut.called /\ searchOut.status = "ok" /\ searchOut.k = 1) =>
    \A i \in 1..faiss_index.ntotal :
      Row(faiss_index, i) = searchOut.qvec =>
        searchOut.hits =
          <<[id |-> FirstEqualRow(faiss_index, searchOut.qvec) - 1, dist |-> 0]>>

C4_Witness ==
  /\ searchOut.called /\ searchOut.status = "ok" /\ searchOut.k = 1
  /\ \E i, j \in 1..faiss_index.ntotal :
       /\ j < i
       /\ Row(faiss_index, i) = searchOut.qvec
       /\ Row(faiss_index, j) = searchOut.qvec
  /\ searchOut.hits[1].dist = 0

C6_NonPositiveKReturnsEmpty ==
  (searchOut.called /\ searchOut.k <= 0 /\ searchOut.exc # "EncodingError") =>
    /\ searchOut.status = "ok"
    /\ searchOut.results = <<>>

\* C7: a knowledge base whose sentence count differs from the row count of its
\* embedding matrix is never returned by the load nor used to build an index.
C7_MismatchedCorpusRejected ==
  buildState = "built" =>
    /\ Len(kb_sentences) = kb_embeddings.shape[1]
    /\ Len(kb_sentences) = faiss_index.ntotal

\* C8: a request that fails surfaces one SearchError wrapping the failure, and
\* no result list.
C8_FailureIsSearchError ==
  \A r \in Reqs :
    req[r].pc = "failed" =>
      /\ req[r].exc = "SearchError"
      /\ req[r].results = <<>>

\* C9: the sentences loaded after a save are the saved sentences: as many as the
\* matrix has rows, the i-th loaded equal to the i-th saved.
C9_SaveLoadRoundTrip ==
  buildState = "built" =>
    /\ Len(kb_sentences) = kb_embeddings.shape[1]
    /\ kb_sentences = german_sentences(docs)

\* C10: while requests are served, interleaved in any order, the index and the
\* two sentence lists stay as loaded, and every request that returns has the
\* result it has when run alone against the freshly loaded state.
FreshIndex(d) ==
  read_index(write_index(create_faiss_index(
    np_load(np_save(create_embeddings(german_sentences(d)))))))

AloneResults(d, q) ==
  IF q = <<>> THEN <<>>
  ELSE assemble_results(knn_L2sqr(FreshIndex(d), model_encode(<<q>>), top_k),
                        german_sentences(d), english_sentences(d))

C10_ServingLeavesStateUnchanged ==
  /\ FAISS_INDEX = FreshIndex(docs)
  /\ SENTENCES = german_sentences(docs)
  /\ ENGLISH_SENTENCES = english_sentences(docs)
  /\ \A r \in Reqs :
       req[r].pc = "done" => req[r].results = AloneResults(docs, req[r].query)

C10_Witness ==
  /\ req[1].pc = "done" /\ req[1].results # <<>>
  /\ req[2].pc = "assemble" /\ req[2].query # req[1].query

====
